---------------------------- MODULE Spec2Model ----------------------------
(***************************************************************************)
(* Model of the pubsub topic object (pull / publish / subscribe, plus      *)
(* truncate) and of the consumer loop pullMessages of the pubsub client.   *)
(*                                                                         *)
(* One topic key is modelled.  The host runtime is taken at its interface: *)
(* exclusive handlers (publish, subscribe, truncate) run one at a time on  *)
(* a key; the shared handler pull runs beside them; the object being       *)
(* created with enableLazyState, every ctx.get of a handler is served by   *)
(* the runtime on its own, so that a handler is a sequence of steps, one   *)
(* per read it awaits, and steps of other invocations fall in between; a   *)
(* ctx.set is in the state once it is made; a one-way send is queued until *)
(* the runtime runs it; and an awakeable is completed by the first of      *)
(* resolve / reject / timer.                                               *)
(***************************************************************************)
EXTENDS Integers, Sequences, FiniteSets, TLC

(* ------------------------------ bounds -------------------------------- *)

\* number of messages published at most
MaxTail == 2
\* largest explicit start offset of a consumer loop
MaxOff == 2
\* largest count given to truncate
MaxCount == 2
\* pull timeouts that may fire in a run (all consumers together)
MaxTimeouts == 1
\* truncate calls in a run
MaxTruncates == 1
\* pulls of one consumer that suspend, where the timer is not limited
MaxSuspensions == 1

Consumers == {"c1", "c2"}
\* the messages the producers publish, all distinct (message-0, message-1, ...)
Payloads == <<"a", "b", "c", "d">>

\* the JS values undefined and null
Undefined == "undefined"
Null == "null"
\* an absent offset (opts.offset not given)
Unset == -1

\* what ctx.get resolves to for a state key that holds no value.  The
\* runtime is not part of the sources: its interface gives null, the check in
\* loadMessagesInRange tests for undefined; both outcomes are kept.
AbsentValues == {Null, Undefined}

StartOffsets == {Unset} \cup (0 .. MaxOff)
Counts == 0 .. MaxCount

VARIABLES
    metadata,      \* state key "messagesMetadata": [head, tail]
    m,             \* state keys m_<i>: offset -> payload, for the keys set
    subscription,  \* state key "subscription": sequence of [id, offset]
    inbox,         \* subscribe requests sent by pull, not yet run
    running,       \* the exclusive invocation under way on the key, if any
    consumer,      \* per consumer loop: its local variables and position
    log,           \* history: every payload published, in publish order
    timeouts,      \* history: pull timeouts fired so far
    truncates,     \* history: truncate calls so far
    lastOp         \* history: the last step's operation (truncate: its count)

vars == <<metadata, m, subscription, inbox, running, consumer, log, timeouts,
          truncates, lastOp>>

(* --------------------------- pure helpers ----------------------------- *)

Min(a, b) == IF a < b THEN a ELSE b

\* the JS comparison a < b of an offset with a number: false when the offset
\* is undefined
lessThan(offset, n) == offset # Unset /\ offset < n

defaultMetadata == [head |-> 0, tail |-> 0]

\* ctx.get(`m_${i}`): the value set under the key, or the value the runtime
\* gives for a key that holds none
ctxGet(store, i, absent) ==
    IF i \in DOMAIN store THEN store[i] ELSE absent

\* the keys read by the loop of loadMessagesInRange (i = from; i < to; i++):
\* none when from is not below to
rangeKeys(fromIncluded, toExcluded) ==
    IF lessThan(fromIncluded, toExcluded)
    THEN fromIncluded .. (toExcluded - 1) ELSE {}

\* mutant: the loop issues its reads from the last key down to the first
loadKeyDescending(fromIncluded, toExcluded, got) ==
    toExcluded - 1 - Len(got)

\* the key of the read of loadMessagesInRange that is served next, got being
\* the values of the reads served so far: the reads are issued for i = from,
\* from + 1, ... and served in that order
loadKey(fromIncluded, toExcluded, got) == fromIncluded + Len(got)

\* loadMessagesInRange(ctx, fromIncluded, toExcluded), fromIncluded below
\* toExcluded, when its next read is served from store: a value that is
\* undefined throws "Value is unexpected to be undefined" (null passes the
\* check); else the value joins those got, and with the last read served the
\* values are returned in ascending key order
loadMessagesInRange(store, fromIncluded, toExcluded, got, absent) ==
    LET value == ctxGet(store, loadKey(fromIncluded, toExcluded, got), absent)
    IN  IF value = Undefined
        THEN [state |-> "failed", values |-> << >>]
        ELSE IF Len(got) + 1 < toExcluded - fromIncluded
        THEN [state |-> "loading", values |-> Append(got, value)]
        ELSE [state |-> "loaded", values |-> Append(got, value)]

\* loadMessagesInRange before any of its reads is served
NoLoad == [state |-> "none", values |-> << >>]

\* lastOp of every step that is not a truncate
Other == [name |-> "other", count |-> 0]

\* lastOp of a step in which publish or subscribe throws a TerminalError:
\* the invocation ends with that failure
Thrown == [name |-> "thrown", count |-> 0]

\* lastOp of a step in which publish throws an error that is not terminal:
\* the runtime runs the invocation again, which replays what it has done
\* and throws at the same call, for as long as it is retried
Retried == [name |-> "retried", count |-> 0]

\* the exclusive slot of a key with no invocation under way.  An invocation
\* under way holds its operation, where it is ("subscription": at the read
\* of the registry, "loads": at the reads of a range, "retrying": at the
\* call that throws every time the invocation is run), the tail of the
\* metadata it has read, the subscriptions it has still to deal with (the
\* first is the one whose range it loads, or fails to) and the values loaded
\* so far.
Idle ==
    [op |-> "none", pc |-> "none", tail |-> 0, subs |-> << >>, got |-> << >>]

\* the message the producers publish next: the k-th publish carries Payloads[k]
produced(published) == Payloads[Len(published) + 1]

NoResponse ==
    [kind |-> "none", via |-> "none", messages |-> << >>, nextOffset |-> 0,
     offset |-> 0, head |-> 0, tail |-> 0]


\* a consumer loop before its first pull (pullMessages, opts.offset)
newConsumer(start) ==
    [pc |-> "start", opts |-> start, offset |-> start, id |-> 0, waitOff |-> 0,
     survived |-> FALSE, buf |-> << >>, next |-> 0,
     yielded |-> << >>, res |-> NoResponse, aborted |-> FALSE,
     stream |-> [state |-> "none", enqueued |-> << >>]]

(* ------------------------ the event stream ---------------------------- *)

\* sse() runs the consumer loop inside the start() of a ReadableStream.  The
\* field stream of a consumer holds the state of its stream ("none" when the
\* loop runs on its own, else "open", "closed" or "errored") and the chunks
\* handed to controller.enqueue so far.

\* JSON.stringify of a message: the payloads are strings, which are quoted;
\* null gives null
stringify(message) ==
    IF message = Null THEN "null" ELSE "\"" \o message \o "\""

\* encoder.encode(text): the bytes of the text in UTF-8
encode(text) == [utf8 |-> text]

\* mutant: the frame carries the message as it is
chunkUnquoted(message) == encode("data: " \o message \o "\n\n")

\* the frame of one message
chunk(message) == encode("data: " \o stringify(message) \o "\n\n")

\* start(), from where the loop has got to: for await takes every message the
\* loop has to hand out, without waiting for anyone, and enqueues its frame
\* (the loop then sets offset = nextOffset and sleeps); controller.close()
\* when the loop has returned, controller.error(error) when it has thrown.
\* A loop that runs outside a stream is left as it is.
streamed(rec) ==
    LET taken == IF rec.pc = "yield"
                 THEN [rec EXCEPT
                         !.yielded = rec.yielded \o rec.buf,
                         !.buf = << >>, !.offset = rec.next, !.pc = "start",
                         !.res = [kind |-> "none", via |-> "none",
                                  messages |-> << >>, nextOffset |-> 0,
                                  offset |-> 0, head |-> 0, tail |-> 0],
                         !.stream.enqueued = rec.stream.enqueued \o
                             [i \in 1 .. Len(rec.buf) |-> chunk(rec.buf[i])]]
                 ELSE rec
    IN  IF rec.stream.state # "open" THEN rec
        ELSE IF taken.pc = "done"
        THEN [taken EXCEPT !.stream.state = "closed"]
        ELSE IF taken.pc = "failed"
        THEN [taken EXCEPT !.stream.state = "errored"]
        ELSE taken

(* ----------------------- the consumer loop ---------------------------- *)

\* mutant: the loop lets the timeout status end it like any other failure
onResponseTimeoutIsTerminal(rec, resp) ==
    streamed(
        CASE resp.kind = "ok" /\ resp.messages = << >> ->
                [rec EXCEPT !.pc = "start", !.offset = resp.nextOffset, !.res = resp]
          [] resp.kind = "ok" ->
                [rec EXCEPT !.pc = "yield", !.buf = resp.messages,
                            !.next = resp.nextOffset, !.res = resp]
          [] OTHER ->
                [rec EXCEPT !.pc = "failed", !.res = resp])

\* mutant: the loop treats every failure of pull like the timeout status
onResponseRetryEveryFailure(rec, resp) ==
    streamed(
        CASE resp.kind = "ok" /\ resp.messages = << >> ->
                [rec EXCEPT !.pc = "start", !.offset = resp.nextOffset, !.res = resp]
          [] resp.kind = "ok" ->
                [rec EXCEPT !.pc = "yield", !.buf = resp.messages,
                            !.next = resp.nextOffset, !.res = resp]
          [] OTHER ->
                [rec EXCEPT !.pc = "start", !.res = resp])

\* pullMessages, one response of pull: messages are handed out one by one and
\* offset = nextOffset follows the last; HTTP 408 keeps the offset and loops;
\* any other failure is thrown out of the generator.  Inside a stream start()
\* goes on from there.
onResponse(rec, resp) ==
    streamed(
        CASE resp.kind = "ok" /\ resp.messages = << >> ->
                [rec EXCEPT !.pc = "start", !.offset = resp.nextOffset, !.res = resp]
          [] resp.kind = "ok" ->
                [rec EXCEPT !.pc = "yield", !.buf = resp.messages,
                            !.next = resp.nextOffset, !.res = resp]
          [] resp.kind = "timeout" ->
                [rec EXCEPT !.pc = "start", !.res = resp]
          [] OTHER ->
                [rec EXCEPT !.pc = "failed", !.res = resp])

\* mutant: the loop moves its offset by one after a response
yieldNextAdvancesByOne(rec) ==
    IF Len(rec.buf) = 1
    THEN [rec EXCEPT !.yielded = Append(rec.yielded, Head(rec.buf)),
                     !.buf = << >>, !.offset = rec.offset + 1,
                     !.pc = "start", !.res = NoResponse]
    ELSE [rec EXCEPT !.yielded = Append(rec.yielded, Head(rec.buf)),
                     !.buf = Tail(rec.buf)]

\* for (const message of messages) yield message; offset = nextOffset
yieldNext(rec) ==
    IF Len(rec.buf) = 1
    THEN [rec EXCEPT !.yielded = Append(rec.yielded, Head(rec.buf)),
                     !.buf = << >>, !.offset = rec.next, !.pc = "start",
                     !.res = NoResponse]
    ELSE [rec EXCEPT !.yielded = Append(rec.yielded, Head(rec.buf)),
                     !.buf = Tail(rec.buf)]

\* while (!(signal?.aborted ?? false)) ... pull({ offset }, opts({ signal })):
\* the loop finds the signal unset and sends its pull call; the call is under
\* way until the handler answers
request(c) ==
    /\ consumer[c].pc = "start"
    /\ ~consumer[c].aborted
    /\ consumer' = [consumer EXCEPT ![c].pc = "requested"]
    /\ lastOp' = Other
    /\ UNCHANGED <<metadata, m, subscription, running, inbox, log, timeouts,
                   truncates>>

(* --------------------------- awakeables -------------------------------- *)

\* the awakeable a parked pull of consumer c waits on
awakeableId(c, rec) == <<c, rec.id>>

\* mutant: the token of a pull that has timed out still reaches the caller
awaitedAfterTimeout(id) ==
    /\ id[1] \in Consumers
    /\ consumer[id[1]].pc \in {"parked", "start"}
    /\ consumer[id[1]].id = id[2]

\* whether the token id is the one a still suspended pull awaits; completing
\* any other token (of a pull that timed out) has no effect
awaited(id) ==
    /\ id[1] \in Consumers
    /\ consumer[id[1]].pc = "parked"
    /\ consumer[id[1]].id = id[2]

\* whether an invocation of pull occupies the exclusive slot of its key: pull
\* is registered with handler.shared, so it never does
holdsKey(rec) == FALSE

\* the exclusive handlers (publish, subscribe, truncate) start only when no
\* invocation occupies the key
keyFree ==
    /\ running.op = "none"
    /\ \A c \in Consumers : ~holdsKey(consumer[c])

\* pull, after the awakeable: the notification becomes the response
notificationResponse(n, rec, via) ==
    [kind |-> "ok", via |-> via, messages |-> n.newMessages,
     nextOffset |-> n.newOffset, offset |-> rec.waitOff,
     head |-> rec.res.head, tail |-> rec.res.tail]

\* pull, after the awakeable was rejected: the terminal error
rejectionResponse(off, head, rec, via) ==
    [kind |-> "belowHead", via |-> via, messages |-> << >>, nextOffset |-> 0,
     offset |-> off, head |-> head, tail |-> rec.res.tail]

\* ctx.resolveAwakeable(id, notification) for every [id, notification] of
\* notes: the pull that awaits a token returns its notification, and its
\* loop takes the response; a token that no pull awaits any more is dropped
resolveAwakeable(notes, via) ==
    [c \in Consumers |->
        LET mine == {n \in notes : n.id = awakeableId(c, consumer[c])
                                      /\ awaited(n.id)}
        IN  IF mine = {} THEN consumer[c]
            ELSE onResponse(consumer[c],
                    notificationResponse((CHOOSE n \in mine : TRUE).notification,
                                         consumer[c], via))]

(* ------------------------------ pull ----------------------------------- *)

\* PullRequest = z.object({offset: z.number()}): whether a request with this
\* offset passes the schema
validRequest(offset) == offset # Unset

\* input: serde.zod(PullRequest).  A request that passes the schema is handed
\* to pull.  One without offset is refused by the serde; the serde is not part
\* of the sources, so the handler running on such a request, its offset
\* undefined, is kept as an outcome as well.
inputOutcomes(offset) ==
    IF validRequest(offset) THEN {"accepted"} ELSE {"refused", "accepted"}

\* the failure of a call whose input was refused: not the timeout status
invalidResponse ==
    [NoResponse EXCEPT !.kind = "invalid", !.via = "input"]

\* mutant: pull without the check against the head
pullBranchNoHeadCheck(offset, md) ==
    IF lessThan(offset, md.tail) THEN "fast" ELSE "wait"

\* mutant: pull sends a subscribe request whenever it is not below the head
pullBranchAlwaysWait(offset, md) ==
    IF lessThan(offset, md.head) THEN "belowHead" ELSE "wait"

\* which of its three paths pull takes
pullBranch(offset, md) ==
    IF lessThan(offset, md.head) THEN "belowHead"
    ELSE IF lessThan(offset, md.tail) THEN "fast"
    ELSE "wait"

\* the response of a pull that does not suspend: the terminal error below
\* the head, else the messages loaded for [offset, tail) of the metadata md
\* read before, or the failure of the load
pullResponse(offset, md, load) ==
    IF pullBranch(offset, md) = "belowHead"
    THEN [kind |-> "belowHead", via |-> "pull", messages |-> << >>,
          nextOffset |-> 0, offset |-> offset, head |-> md.head, tail |-> md.tail]
    ELSE IF load.state = "loaded"
    THEN [kind |-> "ok", via |-> "fast", messages |-> load.values,
          nextOffset |-> md.tail, offset |-> offset, head |-> md.head,
          tail |-> md.tail]
    ELSE [kind |-> "loadError", via |-> "pull", messages |-> << >>,
          nextOffset |-> 0, offset |-> offset, head |-> md.head, tail |-> md.tail]

\* The handler pull up to its first suspension after the metadata read.  The
\* input is checked against the schema; then ctx.get("messagesMetadata") is
\* served.  Below the head the handler throws; not below the tail it
\* creates the awakeable, sends the subscribe request and awaits; in range
\* the reads of the keys m_<offset> .. m_<tail-1> are issued and still to be
\* served (pc "loading", the metadata read kept in res.head and res.tail, the
\* values of the reads served so far in res.messages).
pullReadMetadata(c) ==
    LET rec == consumer[c]
        md == metadata
        off == rec.offset
        seen == [rec EXCEPT !.survived = FALSE]
    IN  /\ rec.pc = "requested"
        /\ \E outcome \in inputOutcomes(off) :
           IF outcome = "refused"
           THEN /\ inbox' = inbox
                /\ consumer' = [consumer EXCEPT ![c] =
                        onResponse(seen, invalidResponse)]
           ELSE IF pullBranch(off, md) = "wait"
           THEN /\ inbox' = inbox \cup
                        {[id |-> <<c, rec.id + 1>>, offset |-> off]}
                /\ consumer' = [consumer EXCEPT ![c] =
                        [seen EXCEPT !.pc = "parked", !.id = rec.id + 1,
                                     !.waitOff = off,
                                     !.res = [NoResponse EXCEPT
                                                !.offset = off,
                                                !.head = md.head,
                                                !.tail = md.tail]]]
           ELSE IF pullBranch(off, md) = "fast"
           THEN /\ inbox' = inbox
                /\ consumer' = [consumer EXCEPT ![c] =
                        [seen EXCEPT !.pc = "loading",
                                     !.res = [NoResponse EXCEPT
                                                !.offset = off,
                                                !.head = md.head,
                                                !.tail = md.tail]]]
           ELSE /\ inbox' = inbox
                /\ consumer' = [consumer EXCEPT ![c] =
                        onResponse(seen, pullResponse(off, md, NoLoad))]
        /\ lastOp' = Other
        /\ UNCHANGED <<metadata, m, subscription, running, log, timeouts,
                       truncates>>

\* loadMessagesInRange(ctx, offset, metadata.tail), one of its reads served:
\* the range is the one of the metadata read before, the value is the one
\* stored when the read is served.  With the last read served, or with a
\* read that throws, the handler returns and the loop takes the response.
pullLoadMessages(c) ==
    LET rec == consumer[c]
        md == [head |-> rec.res.head, tail |-> rec.res.tail]
    IN  /\ rec.pc = "loading"
        /\ \E absent \in AbsentValues :
              LET load == loadMessagesInRange(m, rec.res.offset, md.tail,
                                              rec.res.messages, absent)
              IN  consumer' = [consumer EXCEPT ![c] =
                      IF load.state = "loading"
                      THEN [rec EXCEPT !.res.messages = load.values]
                      ELSE onResponse(rec,
                              pullResponse(rec.res.offset, md, load))]
        /\ lastOp' = Other
        /\ UNCHANGED <<metadata, m, subscription, running, inbox, log,
                       timeouts, truncates>>

\* a step of the shared handler pull
pull(c) == pullReadMetadata(c) \/ pullLoadMessages(c)

\* mutant: pull awaits the awakeable without a timer
timerNeverArmed(rec) == FALSE

\* promise.orTimeout(pullTimeout): every suspended pull has its timer running
timerArmed(rec) == rec.pc = "parked"

\* the timer wins over the awakeable: the call fails with the timeout status
timerFires(c) ==
    /\ timerArmed(consumer[c])
    /\ consumer' = [consumer EXCEPT ![c] =
            onResponse(consumer[c],
                [NoResponse EXCEPT !.kind = "timeout", !.via = "timer",
                                   !.offset = consumer[c].waitOff])]
    /\ timeouts' = timeouts + 1
    /\ lastOp' = Other
    /\ UNCHANGED <<metadata, m, subscription, running, inbox, log, truncates>>

\* a pull timeout, within the number of timeouts explored
pullTimeout(c) ==
    /\ timeouts < MaxTimeouts
    /\ timerFires(c)

\* the consumer takes the next message from the generator
yield(c) ==
    /\ consumer[c].pc = "yield"
    /\ consumer' = [consumer EXCEPT ![c] = yieldNext(consumer[c])]
    /\ lastOp' = Other
    /\ UNCHANGED <<metadata, m, subscription, running, inbox, log, timeouts,
                   truncates>>


\* while (!(signal?.aborted ?? false)): the loop finds the signal set and
\* the generator returns; inside a stream start() closes it
finish(c) ==
    /\ consumer[c].pc = "start"
    /\ consumer[c].aborted
    /\ consumer' = [consumer EXCEPT ![c] =
            streamed([consumer[c] EXCEPT !.pc = "done"])]
    /\ lastOp' = Other
    /\ UNCHANGED <<metadata, m, subscription, running, inbox, log, timeouts,
                   truncates>>

\* the response of a pull call whose request was aborted through the signal
\* handed to it: a failure that is not the timeout status
abortResponse(rec) ==
    [NoResponse EXCEPT !.kind = "aborted", !.via = "signal",
                       !.offset = rec.waitOff]

\* whether the loop has a pull call under way: sent and not yet answered
callUnderWay(rec) == rec.pc \in {"requested", "loading", "parked"}

\* the owner of the loop sets the cancellation signal, which it can do at any
\* time; a pull call that is under way is aborted with it and fails
abort(c) ==
    /\ ~consumer[c].aborted
    /\ consumer' = [consumer EXCEPT ![c] =
            IF callUnderWay(consumer[c])
            THEN [onResponse(consumer[c], abortResponse(consumer[c]))
                    EXCEPT !.aborted = TRUE]
            ELSE [consumer[c] EXCEPT !.aborted = TRUE]]
    /\ lastOp' = Other
    /\ UNCHANGED <<metadata, m, subscription, running, inbox, log, timeouts,
                   truncates>>

(* ----------------------------- publish --------------------------------- *)

\* mutant: publish writes back a fresh metadata record with the new tail
publishedMetadataFresh(md) == [head |-> 0, tail |-> md.tail + 1]

\* metadata.tail += 1
publishedMetadata(md) == [md EXCEPT !.tail = md.tail + 1]

\* mutant: the message is written at the key of the incremented tail
publishedStoreAtNewTail(store, md, message) ==
    [i \in (DOMAIN store) \cup {md.tail + 1} |->
        IF i = md.tail + 1 THEN message ELSE store[i]]

\* ctx.set(`m_${tail}`, message)
publishedStore(store, md, message) ==
    [i \in (DOMAIN store) \cup {md.tail} |->
        IF i = md.tail THEN message ELSE store[i]]

\* mutant: the notification names the tail before the append
publishNotificationOldTail(newTail, values) ==
    [newOffset |-> newTail - 1, newMessages |-> values]

\* the notification publish builds for one subscription from the values it
\* has loaded for it: newOffset is the tail after the increment
publishNotification(newTail, values) ==
    [newOffset |-> newTail, newMessages |-> values]

\* how many of the subscriptions at the front of subs the loop of publish
\* notifies without awaiting a read: those for which loadMessagesInRange
\* returns [] at its guard, fromIncluded == toExcluded
emptyRanges(subs, newTail) ==
    LET others == {i \in 1 .. Len(subs) : subs[i].offset # newTail}
    IN  IF others = {} THEN Len(subs)
        ELSE (CHOOSE i \in others : \A j \in others : i <= j) - 1

\* loadMessagesInRange gets past its guard with a range that holds no key
\* (fromIncluded beyond toExcluded, or no offset at all): the loop pushes no
\* promise and RestatePromise.all is called with none, which throws an
\* error that is not a TerminalError
allOfNone(fromIncluded, toExcluded) ==
    /\ fromIncluded # toExcluded
    /\ rangeKeys(fromIncluded, toExcluded) = {}

\* for (const { id, offset } of subscriptions), from the subscriptions subs
\* still to deal with, up to the next await or throw: the notifications sent
\* (notes are those sent before), the subscriptions left, and whether
\* loadMessagesInRange throws for the first of them (else its range is being
\* loaded)
publishLoop(notes, subs, newTail) ==
    LET n == emptyRanges(subs, newTail)
        left == SubSeq(subs, n + 1, Len(subs))
    IN  [notes |-> notes \cup
                    {[id |-> subs[i].id,
                      notification |-> publishNotification(newTail, << >>)] :
                        i \in 1 .. n},
         subs |-> left,
         thrown |-> left # << >> /\ allOfNone(left[1].offset, newTail)]

\* the invocation of publish after the loop has run up to its next await or
\* throw: ended, loading the range of the first subscription left, or
\* failing there and retried from then on
publishNext(run, loop) ==
    IF loop.subs = << >> THEN Idle
    ELSE [run EXCEPT !.pc = IF loop.thrown THEN "retrying" ELSE "loads",
                     !.subs = loop.subs, !.got = << >>]

\* the position in subs of the first subscription holding token id, 0 if none
firstWith(subs, n, id) ==
    LET at == {i \in 1 .. n : subs[i].id = id}
    IN  IF at = {} THEN 0 ELSE CHOOSE i \in at : \A j \in at : i <= j

\* mutant: publish leaves the registry as it found it
publishedSubscriptionKept(subs) == subs

\* ctx.clear("subscription"), after the loop
publishedSubscription(subs) == << >>

\* publish, up to its second await: ctx.get("messagesMetadata") is served,
\* the message is set under m_<tail>, the metadata with the tail incremented
\* is set, and ctx.get("subscription") is issued
publish(message) ==
    LET md == publishedMetadata(metadata)
    IN  /\ metadata.tail < MaxTail
        /\ keyFree
        /\ m' = publishedStore(m, metadata, message)
        /\ metadata' = md
        /\ log' = Append(log, message)
        /\ running' = [Idle EXCEPT !.op = "publish", !.pc = "subscription",
                                   !.tail = md.tail]
        /\ lastOp' = Other
        /\ UNCHANGED <<subscription, inbox, consumer, timeouts, truncates>>

\* publish, its read of the registry served: the loop over the subscriptions
\* runs up to the first whose range has keys to read or makes
\* loadMessagesInRange throw; when the loop gets through, publish clears the
\* registry and returns
publishReadSubscription ==
    LET loop == publishLoop({}, subscription, running.tail)
    IN  /\ running.op = "publish"
        /\ running.pc = "subscription"
        /\ consumer' = resolveAwakeable(loop.notes, "publish")
        /\ subscription' = IF loop.subs = << >>
                           THEN publishedSubscription(subscription)
                           ELSE subscription
        /\ running' = publishNext(running, loop)
        /\ lastOp' = IF loop.thrown THEN Retried ELSE Other
        /\ UNCHANGED <<metadata, m, inbox, log, timeouts, truncates>>

\* publish, one read of the range of a subscription served.  With the last
\* one the subscription is notified and the loop goes on, up to its next
\* await or throw; a read that throws ends publish with the registry as it
\* is.
publishLoadMessages ==
    LET w == Head(running.subs)
    IN  /\ running.op = "publish"
        /\ running.pc = "loads"
        /\ \E absent \in AbsentValues :
              LET load == loadMessagesInRange(m, w.offset, running.tail,
                                              running.got, absent)
                  loop == publishLoop(
                            {[id |-> w.id,
                              notification |->
                                publishNotification(running.tail, load.values)]},
                            Tail(running.subs), running.tail)
              IN  IF load.state = "failed"
                  THEN /\ running' = Idle
                       /\ lastOp' = Thrown
                       /\ UNCHANGED <<consumer, subscription>>
                  ELSE IF load.state = "loading"
                  THEN /\ running' = [running EXCEPT !.got = load.values]
                       /\ lastOp' = Other
                       /\ UNCHANGED <<consumer, subscription>>
                  ELSE /\ consumer' = resolveAwakeable(loop.notes, "publish")
                       /\ subscription' = IF loop.subs = << >>
                                          THEN publishedSubscription(subscription)
                                          ELSE subscription
                       /\ running' = publishNext(running, loop)
                       /\ lastOp' = IF loop.thrown THEN Retried ELSE Other
        /\ UNCHANGED <<metadata, m, inbox, log, timeouts, truncates>>

(* ---------------------------- subscribe -------------------------------- *)

\* mutant: subscribe registers every waiter that is not below the head
subscribeBranchNoTailCheck(offset, md) ==
    IF lessThan(offset, md.head) THEN "reject" ELSE "register"

\* mutant: subscribe without the check against the head
subscribeBranchNoHeadCheck(offset, md) ==
    IF lessThan(offset, md.tail) THEN "resolve" ELSE "register"

\* which of its three paths subscribe takes
subscribeBranch(offset, md) ==
    IF lessThan(offset, md.head) THEN "reject"
    ELSE IF lessThan(offset, md.tail) THEN "resolve"
    ELSE "register"

\* mutant: the notification names the offset the waiter asked for
subscribeNotificationSameOffset(offset, tail, values) ==
    [newOffset |-> offset, newMessages |-> values]

\* the notification subscribe builds, the offset being below the tail, from
\* the values it has loaded
subscribeNotification(offset, tail, values) ==
    [newOffset |-> tail, newMessages |-> values]

\* the runtime runs a queued subscribe request, up to its second await:
\* ctx.get("messagesMetadata") is served; below the head the token is
\* rejected and subscribe returns; below the tail the reads of the range are
\* issued; else ctx.get("subscription") is issued
subscribe(s) ==
    LET md == metadata
        c == s.id[1]
        rec == consumer[c]
        branch == subscribeBranch(s.offset, md)
    IN  /\ s \in inbox
        /\ keyFree
        /\ inbox' = inbox \ {s}
        /\ consumer' =
              IF awaited(s.id) /\ branch = "reject"
              THEN [consumer EXCEPT ![c] = onResponse(rec,
                        rejectionResponse(s.offset, md.head, rec, "subscribe"))]
              ELSE consumer
        /\ running' =
              IF branch = "reject" THEN Idle
              ELSE [Idle EXCEPT !.op = "subscribe",
                                !.pc = IF branch = "resolve" THEN "loads"
                                       ELSE "subscription",
                                !.tail = md.tail, !.subs = <<s>>]
        /\ lastOp' = Other
        /\ UNCHANGED <<metadata, m, subscription, log, timeouts, truncates>>

\* subscribe, one read of the range served; with the last one the token is
\* resolved and subscribe returns
subscribeLoadMessages ==
    LET s == Head(running.subs)
    IN  /\ running.op = "subscribe"
        /\ running.pc = "loads"
        /\ \E absent \in AbsentValues :
              LET load == loadMessagesInRange(m, s.offset, running.tail,
                                              running.got, absent)
              IN  IF load.state = "failed"
                  THEN /\ running' = Idle
                       /\ lastOp' = Thrown
                       /\ consumer' = consumer
                  ELSE IF load.state = "loading"
                  THEN /\ running' = [running EXCEPT !.got = load.values]
                       /\ lastOp' = Other
                       /\ consumer' = consumer
                  ELSE /\ consumer' = resolveAwakeable(
                            {[id |-> s.id,
                              notification |->
                                subscribeNotification(s.offset, running.tail,
                                                      load.values)]},
                            "subscribe")
                       /\ running' = Idle
                       /\ lastOp' = Other
        /\ UNCHANGED <<metadata, m, subscription, inbox, log, timeouts,
                       truncates>>

\* subscribe, its read of the registry served: sub.push(subscription);
\* ctx.set("subscription", sub)
subscribeReadSubscription ==
    /\ running.op = "subscribe"
    /\ running.pc = "subscription"
    /\ subscription' = Append(subscription, Head(running.subs))
    /\ running' = Idle
    /\ lastOp' = Other
    /\ UNCHANGED <<metadata, m, inbox, consumer, log, timeouts, truncates>>

(* ----------------------------- truncate -------------------------------- *)

\* mutant: the new head is not capped at the tail
truncateHeadUncapped(md, count) == md.head + count

\* newHead = min(head + count, tail)
truncateHead(md, count) == Min(md.head + count, md.tail)

\* mutant: the purge also takes the entry at the new head
truncatedStoreInclusive(store, newHead) ==
    [i \in {j \in DOMAIN store : j > newHead} |-> store[i]]

\* the entries below the new head are purged from storage
truncatedStore(store, newHead) ==
    [i \in {j \in DOMAIN store : j >= newHead} |-> store[i]]

\* truncate(count): waiters below the new head are rejected and removed, the
\* others stay; entries below the new head are purged
truncate(count) ==
    LET md == metadata
        newHead == truncateHead(md, count)
        subs == subscription
    IN  /\ truncates < MaxTruncates
        /\ keyFree
        /\ metadata' = [md EXCEPT !.head = newHead]
        /\ m' = truncatedStore(m, newHead)
        /\ subscription' = SelectSeq(subs, LAMBDA s : ~lessThan(s.offset, newHead))
        /\ consumer' = [c \in Consumers |->
              LET rec == consumer[c]
                  i == firstWith(subs, Len(subs), awakeableId(c, rec))
              IN  IF rec.pc = "parked" /\ i > 0
                     /\ lessThan(subs[i].offset, newHead)
                  THEN onResponse(rec, rejectionResponse(
                          subs[i].offset, newHead, rec, "truncate"))
                  ELSE IF rec.pc = "parked" /\ i > 0
                  THEN [rec EXCEPT !.survived = TRUE]
                  ELSE rec]
        /\ truncates' = truncates + 1
        /\ lastOp' = [name |-> "truncate", count |-> count]
        /\ UNCHANGED <<inbox, running, log, timeouts>>

(* -------------------------- specification ------------------------------ *)

Init ==
    /\ metadata = defaultMetadata
    /\ m = [i \in {} |-> Null]
    /\ subscription = << >>
    /\ inbox = {}
    /\ running = Idle
    /\ \E o1 \in StartOffsets, o2 \in StartOffsets :
            /\ o1 <= o2
            /\ consumer = [c \in Consumers |->
                    IF c = "c1" THEN newConsumer(o1) ELSE newConsumer(o2)]
    /\ log = << >>
    /\ timeouts = 0
    /\ truncates = 0
    /\ lastOp = Other

Next ==
    \/ \E c \in Consumers : request(c)
    \/ \E c \in Consumers : pullReadMetadata(c)
    \/ \E c \in Consumers : pullLoadMessages(c)
    \/ \E c \in Consumers : pullTimeout(c)
    \/ \E c \in Consumers : yield(c)
    \/ \E message \in {produced(log)} : publish(message)
    \/ publishReadSubscription
    \/ publishLoadMessages
    \/ \E s \in inbox : subscribe(s)
    \/ subscribeLoadMessages
    \/ subscribeReadSubscription
    \/ \E count \in Counts : truncate(count)

Spec == Init /\ [][Next]_vars


(* ------------------------- shared vocabulary --------------------------- *)

\* the step in which the handler pull, called by consumer c's loop, takes
\* its input and reads the metadata
ReadStep(c) ==
    /\ consumer[c].pc = "requested"
    /\ consumer'[c].pc # "requested"
    /\ consumer'[c].res.kind # "aborted"

\* a step in which a read of a message key of c's pull is served
KeyReadStep(c) ==
    /\ consumer[c].pc = "loading"
    /\ consumer'[c] # consumer[c]
    /\ consumer'[c].res.kind # "aborted"

\* the step in which the last of these reads is served, or one throws, and
\* the pull answers
LoadStep(c) ==
    /\ KeyReadStep(c)
    /\ consumer'[c].pc # "loading"

\* a step of the handler pull called by consumer c's loop
PullStep(c) == ReadStep(c) \/ KeyReadStep(c)

\* the steps of the exclusive handlers, told by what only they change:
\* the step of publish that appends, the steps of a publish after it, the
\* one of these that ends the publish, and truncate
PublishStep == metadata'.tail = metadata.tail + 1
PublishNotifyStep == running.op = "publish" /\ running' # running
PublishDone == running.op = "publish" /\ running'.op = "none"
TruncateStep == truncates' = truncates + 1

\* the tokens the exclusive invocation under way has still to deal with
inHand == {running.subs[i].id : i \in 1 .. Len(running.subs)}

\* the tokens held by the registry / by queued subscribe requests
registered == {subscription[i].id : i \in 1 .. Len(subscription)}
queued == {s.id : s \in inbox}

\* the log entries at offsets from .. to-1, in ascending order
entries(from, to) == SubSeq(log, from + 1, to)

(* ------------------------------- C1 ------------------------------------ *)

\* C1: a pull with head <= offset < tail does not suspend: when it has read
\* the metadata it creates no awakeable, sends no subscribe, registers no
\* waiter and changes nothing of the topic, and its reads of the range are
\* all that is left of it; with the range still at or above the head when
\* the reads are served it answers with the log entries offset..tail-1 in
\* ascending order and nextOffset = tail, whatever was published meanwhile.
C1_AppendThenRead ==
    [][\A c \in Consumers :
          /\ (/\ ReadStep(c)
              /\ validRequest(consumer[c].offset)
              /\ metadata.head <= consumer[c].offset
              /\ consumer[c].offset < metadata.tail)
             => /\ consumer'[c].pc = "loading"
                /\ consumer'[c].res.offset = consumer[c].offset
                /\ consumer'[c].res.tail = metadata.tail
                /\ consumer'[c].id = consumer[c].id
                /\ UNCHANGED <<inbox, subscription, metadata, m>>
          /\ (LoadStep(c) /\ metadata.head <= consumer[c].res.offset)
             => /\ consumer'[c].res.kind = "ok"
                /\ consumer'[c].res.via = "fast"
                /\ consumer'[c].res.messages =
                       entries(consumer[c].res.offset, consumer[c].res.tail)
                /\ consumer'[c].res.nextOffset = consumer[c].res.tail
                /\ consumer'[c].pc = "yield"
                /\ consumer'[c].id = consumer[c].id
                /\ UNCHANGED <<inbox, subscription, metadata, m>>]_vars

\* a fast-path answer carrying two messages was given
C1_Witness ==
    \E c \in Consumers :
        /\ consumer[c].res.via = "fast"
        /\ Len(consumer[c].res.messages) >= 2
        /\ consumer[c].res.messages = log

(* ------------------------------- C2 ------------------------------------ *)

\* the response of a pull that suspended at the live edge: its offset was the
\* tail it read
AtLiveEdge(c) ==
    /\ consumer[c].res.kind = "ok"
    /\ consumer[c].res.via \in {"publish", "subscribe"}
    /\ consumer[c].res.offset = consumer[c].res.tail

C3_RaceFreeRegistration ==
    \A c \in Consumers :
        (consumer[c].pc = "parked" /\ validRequest(consumer[c].waitOff))
        => \/ awakeableId(c, consumer[c]) \in queued
           \/ /\ running.op = "subscribe"
              /\ awakeableId(c, consumer[c]) \in inHand
           \/ /\ awakeableId(c, consumer[c]) \in registered
              /\ \/ metadata.tail <= consumer[c].waitOff
                 \/ /\ running.op = "publish"
                    /\ \/ running.pc = "subscription"
                       \/ awakeableId(c, consumer[c]) \in inHand

\* the race happened: a publish ran between a pull's read and its subscribe,
\* and the subscribe handed the data over
C3_Witness ==
    \E c \in Consumers :
        /\ consumer[c].res.kind = "ok"
        /\ consumer[c].res.via = "subscribe"
        /\ consumer[c].res.messages # << >>


(* ------------------------------- C4 ------------------------------------ *)

\* The test scenario of C4: every consumer loop starts at offset 0, producers
\* publish MaxTail distinct messages, nobody truncates.  The runtime runs
\* every queued subscribe and every invocation of pull, the producers get all
\* their publishes through and the consumers keep iterating, hence the weak
\* fairness.
InitFromZero ==
    /\ metadata = defaultMetadata
    /\ m = [i \in {} |-> Null]
    /\ subscription = << >>
    /\ inbox = {}
    /\ running = Idle
    /\ consumer = [c \in Consumers |-> newConsumer(0)]
    /\ log = << >>
    /\ timeouts = 0
    /\ truncates = 0
    /\ lastOp = Other

NextFromZero ==
    \/ \E c \in Consumers : request(c)
    \/ \E c \in Consumers : pullReadMetadata(c)
    \/ \E c \in Consumers : pullLoadMessages(c)
    \/ \E c \in Consumers : pullTimeout(c)
    \/ \E c \in Consumers : yield(c)
    \/ \E message \in {produced(log)} : publish(message)
    \/ publishReadSubscription
    \/ publishLoadMessages
    \/ \E s \in inbox : subscribe(s)
    \/ subscribeLoadMessages
    \/ subscribeReadSubscription

FairFromZero ==
    /\ InitFromZero
    /\ [][NextFromZero]_vars
    /\ \A c \in Consumers :
          /\ WF_vars(request(c))
          /\ WF_vars(pullReadMetadata(c))
          /\ WF_vars(pullLoadMessages(c))
          /\ WF_vars(yield(c))
    /\ WF_vars(\E message \in {produced(log)} : publish(message))
    /\ WF_vars(publishReadSubscription)
    /\ WF_vars(publishLoadMessages)
    /\ WF_vars(\E s \in inbox : subscribe(s))
    /\ WF_vars(subscribeLoadMessages)
    /\ WF_vars(subscribeReadSubscription)

IsPrefix(s, t) == Len(s) <= Len(t) /\ s = SubSeq(t, 1, Len(s))

AllDelivered ==
    /\ Len(log) = MaxTail
    /\ \A c \in Consumers : consumer[c].yielded = log

\* C4: with MaxTail distinct messages published in any interleaving with the
\* consumer loops reading from offset 0, what a consumer has yielded is at
\* all times a prefix of the log (each message once, in append order, the
\* same for all consumers), and eventually every consumer has yielded all of
\* them.
C4_NoLostWakeups ==
    /\ [](\A c \in Consumers : IsPrefix(consumer[c].yielded, log))
    /\ <>AllDelivered

\* all messages were delivered to every consumer, one of which had to wait
\* for a publish and had a pull time out on the way
C4_Witness ==
    /\ AllDelivered
    /\ timeouts > 0
    /\ \E c \in Consumers : consumer[c].id > 1

(* ------------------------------- C5 ------------------------------------ *)

\* C5: a pull whose offset is below the head it reads fails with the terminal
\* OffsetBelowHead error carrying that offset and the head; it creates no
\* awakeable, sends no subscribe and changes nothing of the topic.
C5_PullBelowHead ==
    [][\A c \in Consumers :
          (/\ ReadStep(c)
           /\ validRequest(consumer[c].offset)
           /\ consumer[c].offset < metadata.head)
          => /\ consumer'[c].res.kind = "belowHead"
             /\ consumer'[c].res.offset = consumer[c].offset
             /\ consumer'[c].res.head = metadata.head
             /\ consumer'[c].pc = "failed"
             /\ consumer'[c].id = consumer[c].id
             /\ UNCHANGED <<inbox, subscription, metadata, m>>]_vars

\* a pull failed below the head while another pull's waiter was registered
C5_Witness ==
    \E c \in Consumers :
        /\ consumer[c].res.kind = "belowHead"
        /\ consumer[c].res.via = "pull"
        /\ consumer[c].res.offset < consumer[c].res.head
        /\ subscription # << >>

(* ------------------------------- C6 ------------------------------------ *)

\* C6 as stated: no step of a publish takes a registered waiter whose offset
\* is at or beyond the new tail out of the registry, and the pull awaiting it
\* stays suspended.
C6_PublishKeepsWaitersBeyondTail ==
    [][PublishNotifyStep =>
          \A i \in 1 .. Len(subscription) :
              subscription[i].offset >= running.tail
              => /\ \E j \in 1 .. Len(subscription') :
                        subscription'[j] = subscription[i]
                 /\ awaited(subscription[i].id)
                    => consumer'[subscription[i].id[1]].pc = "parked"]_vars

(* ------------------------------- C7 ------------------------------------ *)

\* C7: truncate(count) sets head' = min(head + count, tail) and leaves the
\* tail alone; no step of any operation lowers the head or lifts it above the
\* tail; once a truncate has run, a pull that reads an offset below the head
\* fails with OffsetBelowHead.
C7_TruncationMonotonicity ==
    [][/\ TruncateStep
          => /\ lastOp'.name = "truncate"
             /\ metadata'.head =
                    Min(metadata.head + lastOp'.count, metadata.tail)
             /\ metadata'.tail = metadata.tail
       /\ metadata'.head >= metadata.head
       /\ metadata'.head <= metadata'.tail
       /\ \A c \in Consumers :
             (/\ ReadStep(c)
              /\ truncates > 0
              /\ validRequest(consumer[c].offset)
              /\ consumer[c].offset < metadata.head)
             => /\ consumer'[c].res.kind = "belowHead"
                /\ consumer'[c].res.head = metadata.head]_vars

\* a truncate asking for more than is stored was capped at the tail
C7_Witness ==
    /\ lastOp.name = "truncate"
    /\ lastOp.count = 2
    /\ metadata.head = 1
    /\ metadata.tail = 1

(* ------------------------------- C8 ------------------------------------ *)

\* C8 as stated: on truncate every registered waiter below the new head is
\* rejected with OffsetBelowHead(offset, newHead) and removed, every other
\* waiter stays registered with its pull suspended; and a waiter that stayed
\* is resolved only by a publish that moves the tail past its offset.
C8_TruncateOnlyRejects ==
    [][/\ TruncateStep
          => \A i \in 1 .. Len(subscription) :
                LET s == subscription[i]
                    c == s.id[1]
                IN  IF s.offset < metadata'.head
                    THEN /\ \A j \in 1 .. Len(subscription') :
                                subscription'[j] # s
                         /\ awaited(s.id)
                            => /\ consumer'[c].res.kind = "belowHead"
                               /\ consumer'[c].res.offset = s.offset
                               /\ consumer'[c].res.head = metadata'.head
                    ELSE /\ \E j \in 1 .. Len(subscription') :
                                subscription'[j] = s
                         /\ awaited(s.id) => consumer'[c].pc = "parked"
       /\ PublishNotifyStep
          => \A c \in Consumers :
                (/\ consumer[c].pc = "parked"
                 /\ consumer[c].survived
                 /\ consumer'[c].pc # "parked")
                => /\ consumer'[c].res.kind = "ok"
                   /\ running.tail > consumer[c].waitOff
                   /\ consumer'[c].res.messages =
                          SubSeq(log, consumer[c].waitOff + 1,
                                 running.tail)]_vars

(* ------------------------------- C9 ------------------------------------ *)

\* C9 as stated: a pull without offset that the handler takes on an empty
\* topic suspends with a waiter at offset 0: its awakeable is created and
\* its subscribe request for offset 0 is sent.
C9_PullWithoutOffsetOnEmpty ==
    [][\A c \in Consumers :
          (/\ ReadStep(c)
           /\ consumer[c].offset = Unset
           /\ metadata.tail = 0)
          => /\ consumer'[c].pc = "parked"
             /\ consumer'[c].waitOff = 0
             /\ [id |-> awakeableId(c, consumer'[c]), offset |-> 0]
                    \in inbox']_vars

(* ------------------------------- C10 ----------------------------------- *)

\* C10 as stated: a loop started without an offset keeps running; its first
\* pull waits, and what it yields is a run of consecutive log entries.
C10_StartFromNow ==
    \A c \in Consumers :
        consumer[c].opts = Unset
        => /\ consumer[c].pc # "failed"
           /\ \E from \in 0 .. Len(log) :
                 consumer[c].yielded =
                    entries(from, from + Len(consumer[c].yielded))


(* ------------------------------- C11 ----------------------------------- *)

\* C11: truncate(count) leaves the tail and every stored entry at offsets
\* min(head + count, tail) .. tail-1 unchanged, and a pull made after a
\* truncate with head <= offset < tail, whose range is still at or above the
\* head when it loads it, returns the entries that were published at offsets
\* offset .. tail-1, with nextOffset = tail.
C11_TruncateKeepsTheRest ==
    [][/\ TruncateStep
          => /\ metadata'.tail = metadata.tail
             /\ \A i \in rangeKeys(Min(metadata.head + lastOp'.count,
                                       metadata.tail), metadata.tail) :
                    /\ i \in DOMAIN m'
                    /\ m'[i] = m[i]
                    /\ m'[i] = log[i + 1]
       /\ \A c \in Consumers :
             (/\ LoadStep(c)
              /\ truncates > 0
              /\ metadata.head <= consumer[c].res.offset)
             => /\ consumer'[c].res.kind = "ok"
                /\ consumer'[c].res.messages =
                       entries(consumer[c].res.offset, consumer[c].res.tail)
                /\ consumer'[c].res.nextOffset = consumer[c].res.tail]_vars

\* publish a, b; truncate(1); pull(1) returned {messages: [b], nextOffset: 2}
C11_Witness ==
    \E c \in Consumers :
        /\ consumer[c].res.via = "fast"
        /\ consumer[c].res.head = 1
        /\ consumer[c].res.offset = 1
        /\ consumer[c].res.messages = <<"b">>
        /\ consumer[c].res.nextOffset = 2

(* ------------------------------- C12 ----------------------------------- *)

\* a pull of consumer c that suspended at offset = tail on a topic truncated
\* up to its tail is completed with messages in the step
WaitAtTailEnds(c) ==
    /\ consumer[c].pc = "parked"
    /\ truncates > 0
    /\ consumer[c].res.head = consumer[c].waitOff
    /\ consumer[c].res.tail = consumer[c].waitOff
    /\ consumer'[c].pc # "parked"
    /\ consumer'[c].res.kind = "ok"

NextTimer ==
    \/ \E c \in Consumers : consumer[c].id < MaxSuspensions /\ request(c)
    \/ \E c \in Consumers : pullReadMetadata(c)
    \/ \E c \in Consumers : pullLoadMessages(c)
    \/ \E c \in Consumers : timerFires(c)
    \/ \E c \in Consumers : yield(c)
    \/ \E message \in {produced(log)} : publish(message)
    \/ publishReadSubscription
    \/ publishLoadMessages
    \/ \E s \in inbox : subscribe(s)
    \/ subscribeLoadMessages
    \/ subscribeReadSubscription
    \/ \E count \in Counts : truncate(count)

FairTimer ==
    /\ Init
    /\ [][NextTimer]_vars
    /\ \A c \in Consumers : WF_vars(timerFires(c))

\* C13: every suspended pull eventually ends, and it ends with exactly one
\* of: a resolution (messages, nextOffset), the OffsetBelowHead rejection, or
\* the retryable timeout failure.
C13_SuspendedPullCompletes ==
    /\ [][\A c \in Consumers :
             (consumer[c].pc = "parked" /\ consumer'[c].pc # "parked")
             => \/ /\ consumer'[c].res.kind = "ok"
                   /\ consumer'[c].pc \in {"start", "yield"}
                \/ /\ consumer'[c].res.kind = "belowHead"
                   /\ consumer'[c].pc = "failed"
                \/ /\ consumer'[c].res.kind = "timeout"
                   /\ consumer'[c].pc = "start"]_vars
    /\ \A c \in Consumers :
          (consumer[c].pc = "parked") ~> (consumer[c].pc # "parked")

\* a pull ended by its timer with nothing ever published, and its subscribe
\* was processed only afterwards (its token sits in the registry)
C13_Witness ==
    \E c \in Consumers :
        /\ consumer[c].res.kind = "timeout"
        /\ log = << >>
        /\ awakeableId(c, consumer[c]) \in registered


(* ------------------------------- C14 ----------------------------------- *)

\* C14 as stated: whatever runs between a pull's read of head and tail and
\* its load of the entries, the load finds every entry of [offset, tail) and
\* the fast path returns them as they were in the state the metadata was read
\* from, with nextOffset = that tail.
C14_NoTornPull ==
    [][\A c \in Consumers :
          LoadStep(c)
          => /\ consumer'[c].res.kind = "ok"
             /\ consumer'[c].res.messages =
                    entries(consumer[c].res.offset, consumer[c].res.tail)
             /\ consumer'[c].res.nextOffset = consumer[c].res.tail]_vars

\* the part of C14 that the order of the writes of publish secures: a load
\* overlapped by publishes only returns the entries of the state it read
C14_PublishOverlapIsHarmless ==
    [][\A c \in Consumers :
          (LoadStep(c) /\ metadata.head = consumer[c].res.head)
          => /\ consumer'[c].res.kind = "ok"
             /\ consumer'[c].res.messages =
                    entries(consumer[c].res.offset, consumer[c].res.tail)]_vars

(* ------------------------------- C15 ----------------------------------- *)

\* the next step of the exclusive invocation under way
ExclusiveNext ==
    \/ publishReadSubscription
    \/ publishLoadMessages
    \/ subscribeLoadMessages
    \/ subscribeReadSubscription

\* C15 as stated: while pulls are suspended the exclusive handlers can run:
\* with no exclusive invocation under way a publish and a truncate are
\* possible (as long as the run has publishes and truncates left), and every
\* queued subscribe can be started, in particular the subscribe sent by a
\* pull that is still suspended; and an exclusive invocation that is under
\* way can take its next step.
C15_ParkedPullsDoNotBlock ==
    (\E c \in Consumers : consumer[c].pc = "parked")
    => /\ running.op # "none" => ENABLED ExclusiveNext
       /\ running.op = "none"
          => /\ metadata.tail < MaxTail
                => ENABLED (\E message \in {produced(log)} : publish(message))
             /\ truncates < MaxTruncates
                => \A count \in Counts : ENABLED truncate(count)
             /\ \A s \in inbox : ENABLED subscribe(s)
             /\ \A c \in Consumers :
                   (/\ consumer[c].pc = "parked"
                    /\ awakeableId(c, consumer[c]) \in queued)
                   => ENABLED subscribe([id |-> awakeableId(c, consumer[c]),
                                         offset |-> consumer[c].waitOff])

(* ------------------------------- C17 ----------------------------------- *)

\* The scenario of C17: consumer loops started at any offset, publishes and
\* pull timeouts in any interleaving; nobody truncates.
Untruncated == Init /\ [][NextFromZero]_vars

\* C17: what a consumer loop started at an explicit offset o has yielded is
\* at every moment the log entries o, o+1, ... in ascending order without
\* gap or repetition; between two pulls the running offset is o plus the
\* number of messages yielded, and while the messages of a response are
\* handed out the running offset is still the one the response was asked for.
C17_ConsumerSequence ==
    \A c \in Consumers :
        consumer[c].opts # Unset
        => /\ \/ consumer[c].yielded = << >>
              \/ /\ consumer[c].opts + Len(consumer[c].yielded) <= Len(log)
                 /\ consumer[c].yielded =
                        entries(consumer[c].opts,
                                consumer[c].opts + Len(consumer[c].yielded))
           /\ consumer[c].pc \in {"start", "requested", "loading", "parked"}
              => consumer[c].offset =
                     consumer[c].opts + Len(consumer[c].yielded)
           /\ consumer[c].pc = "yield"
              => consumer[c].offset + Len(consumer[c].res.messages)
                     - Len(consumer[c].buf) =
                 consumer[c].opts + Len(consumer[c].yielded)

\* a loop started at offset 1 waited through a timeout and a publish that
\* had nothing for it and has then yielded the second message, while the
\* loop started at offset 0 has yielded both
C17_Witness ==
    \E c, d \in Consumers :
        /\ consumer[c].opts = 1
        /\ consumer[c].yielded = <<"b">>
        /\ consumer[c].offset = 2
        /\ timeouts > 0
        /\ consumer[d].opts = 0
        /\ consumer[d].yielded = <<"a", "b">>

(* ------------------------------- C18 ----------------------------------- *)

\* the step in which the timer ends the suspended pull of consumer c
TimeoutStep(c) ==
    /\ consumer[c].pc = "parked"
    /\ consumer'[c].res.kind = "timeout"

\* C18: a pull timeout yields nothing, leaves the running offset as it is
\* and the loop alive, and the pull the loop issues next carries the offset
\* the timed out pull was waiting at, so that no message is skipped or
\* delivered twice because of the timeout.
C18_TimeoutKeepsPosition ==
    [][\A c \in Consumers :
          /\ TimeoutStep(c)
             => /\ consumer'[c].yielded = consumer[c].yielded
                /\ consumer'[c].offset = consumer[c].offset
                /\ consumer'[c].offset = consumer[c].waitOff
                /\ consumer'[c].pc = "start"
          /\ (ReadStep(c) /\ consumer[c].res.kind = "timeout")
             => consumer[c].offset = consumer[c].res.offset]_vars

\* with nothing published and nothing truncated a loop is suspended for the
\* second time, at the offset it started from: its first pull timed out
C18_Witness ==
    \E c \in Consumers :
        /\ log = << >>
        /\ truncates = 0
        /\ timeouts > 0
        /\ consumer[c].pc = "parked"
        /\ consumer[c].id = 2
        /\ validRequest(consumer[c].opts)
        /\ consumer[c].waitOff = consumer[c].opts

(* ------------------------------- C19 ----------------------------------- *)

\* C19: a response of pull that is a failure other than the timeout status
\* (OffsetBelowHead from pull itself or from a rejected waiter, a failed
\* load) ends the loop with that failure; a loop that has failed yields
\* nothing more and issues no further pull.
C19_FailureIsTerminal ==
    [][\A c \in Consumers :
          /\ (consumer'[c].res # consumer[c].res
              /\ consumer'[c].res.kind \notin {"none", "ok", "timeout"})
             => consumer'[c].pc = "failed"
          /\ (consumer[c].pc # "failed" /\ consumer'[c].pc = "failed")
             => consumer'[c].res.kind \notin {"none", "ok", "timeout"}
          /\ consumer[c].pc = "failed"
             => consumer'[c] = consumer[c]]_vars

\* a loop that had yielded a message failed with OffsetBelowHead on a later
\* pull, and publishes went on after it had failed
C19_Witness ==
    \E c \in Consumers :
        /\ consumer[c].pc = "failed"
        /\ consumer[c].res.kind = "belowHead"
        /\ consumer[c].yielded # << >>
        /\ Len(log) > consumer[c].res.tail

(* ------------------------------- C20 ----------------------------------- *)

\* The scenario of C20: the owner of a consumer loop may set the loop's
\* cancellation signal at any time.
NextCancel ==
    \/ \E c \in Consumers : request(c)
    \/ \E c \in Consumers : pullReadMetadata(c)
    \/ \E c \in Consumers : pullLoadMessages(c)
    \/ \E c \in Consumers : pullTimeout(c)
    \/ \E c \in Consumers : yield(c)
    \/ \E c \in Consumers : abort(c)
    \/ \E c \in Consumers : finish(c)
    \/ \E message \in {produced(log)} : publish(message)
    \/ publishReadSubscription
    \/ publishLoadMessages
    \/ \E s \in inbox : subscribe(s)
    \/ subscribeLoadMessages
    \/ subscribeReadSubscription

Cancellable == Init /\ [][NextCancel]_vars

\* C20 as stated: once the signal is set the loop issues no further pull,
\* and it does not end with an error: from the setting of the signal on the
\* loop never enters the failed state.
C20_CancelEndsNormally ==
    [][\A c \in Consumers :
          /\ consumer[c].aborted
             => /\ consumer'[c].id = consumer[c].id
                /\ consumer'[c].pc # "parked"
                /\ consumer[c].pc = "start"
                   => \/ consumer'[c] = consumer[c]
                      \/ consumer'[c] = [consumer[c] EXCEPT !.pc = "done"]
          /\ (consumer'[c].aborted /\ consumer'[c].pc = "failed")
             => consumer[c].pc = "failed"]_vars


(* ------------------------------- C16 ----------------------------------- *)

\* Two keys of the same pubsub object.  Every key has its own state: in this
\* specification metadata, m, subscription and log are functions of the key,
\* and every handler invocation works on the state of the key it was sent
\* to.  Each consumer loop reads one topic (opts.topic).
Topics == {"A", "B"}

topicOf == [c \in Consumers |-> IF c = "c1" THEN "A" ELSE "B"]

\* the start offsets of the loops: at the start of the log, or beyond it
TopicStartOffsets == {0, 1}

\* the messages published to a key, different from key to key
producedOn(k, published) == <<k, produced(published)>>

\* mutant: pull sends its subscribe to one fixed key
subscribeKeyFixed(key) == "A"

\* objectSendClient({ name }, ctx.key): the subscribe goes to the pull's key
subscribeKey(key) == key

\* pull on the key of the consumer's topic, up to the metadata read
pullReadMetadataOn(c) ==
    LET k == topicOf[c]
        rec == consumer[c]
        md == metadata[k]
        off == rec.offset
        seen == [rec EXCEPT !.survived = FALSE]
    IN  /\ rec.pc = "requested"
        /\ \E outcome \in inputOutcomes(off) :
           IF outcome = "refused"
           THEN /\ inbox' = inbox
                /\ consumer' = [consumer EXCEPT ![c] =
                        onResponse(seen, invalidResponse)]
           ELSE IF pullBranch(off, md) = "wait"
           THEN /\ inbox' = inbox \cup
                        {[key |-> subscribeKey(k), id |-> <<c, rec.id + 1>>,
                          offset |-> off]}
                /\ consumer' = [consumer EXCEPT ![c] =
                        [seen EXCEPT !.pc = "parked", !.id = rec.id + 1,
                                     !.waitOff = off,
                                     !.res = [NoResponse EXCEPT
                                                !.offset = off,
                                                !.head = md.head,
                                                !.tail = md.tail]]]
           ELSE IF pullBranch(off, md) = "fast"
           THEN /\ inbox' = inbox
                /\ consumer' = [consumer EXCEPT ![c] =
                        [seen EXCEPT !.pc = "loading",
                                     !.res = [NoResponse EXCEPT
                                                !.offset = off,
                                                !.head = md.head,
                                                !.tail = md.tail]]]
           ELSE /\ inbox' = inbox
                /\ consumer' = [consumer EXCEPT ![c] =
                        onResponse(seen, pullResponse(off, md, NoLoad))]
        /\ lastOp' = Other
        /\ UNCHANGED <<metadata, m, subscription, running, log, timeouts,
                       truncates>>

\* a read of a message key of a pull is served from the state of the key of
\* the consumer's topic
pullLoadMessagesOn(c) ==
    LET k == topicOf[c]
        rec == consumer[c]
        md == [head |-> rec.res.head, tail |-> rec.res.tail]
    IN  /\ rec.pc = "loading"
        /\ \E absent \in AbsentValues :
              LET load == loadMessagesInRange(m[k], rec.res.offset, md.tail,
                                              rec.res.messages, absent)
              IN  consumer' = [consumer EXCEPT ![c] =
                      IF load.state = "loading"
                      THEN [rec EXCEPT !.res.messages = load.values]
                      ELSE onResponse(rec,
                              pullResponse(rec.res.offset, md, load))]
        /\ lastOp' = Other
        /\ UNCHANGED <<metadata, m, subscription, running, inbox, log,
                       timeouts, truncates>>

\* a step of pull on the key of the consumer's topic
pullOn(c) == pullReadMetadataOn(c) \/ pullLoadMessagesOn(c)

\* an exclusive handler starts on key k only when no invocation occupies k
keyFreeOn(k) ==
    /\ running[k].op = "none"
    /\ \A c \in Consumers : topicOf[c] = k => ~holdsKey(consumer[c])

\* publish on key k, up to its second await
publishOn(k, message) ==
    LET md == publishedMetadata(metadata[k])
    IN  /\ metadata[k].tail < MaxTail
        /\ keyFreeOn(k)
        /\ m' = [m EXCEPT ![k] = publishedStore(m[k], metadata[k], message)]
        /\ metadata' = [metadata EXCEPT ![k] = md]
        /\ log' = [log EXCEPT ![k] = Append(log[k], message)]
        /\ running' = [running EXCEPT ![k] =
                [Idle EXCEPT !.op = "publish", !.pc = "subscription",
                             !.tail = md.tail]]
        /\ lastOp' = Other
        /\ UNCHANGED <<subscription, inbox, consumer, timeouts, truncates>>

\* publish on key k, its read of the registry of k served
publishReadSubscriptionOn(k) ==
    LET loop == publishLoop({}, subscription[k], running[k].tail)
    IN  /\ running[k].op = "publish"
        /\ running[k].pc = "subscription"
        /\ consumer' = resolveAwakeable(loop.notes, "publish")
        /\ subscription' = [subscription EXCEPT ![k] =
                IF loop.subs = << >>
                THEN publishedSubscription(subscription[k])
                ELSE subscription[k]]
        /\ running' = [running EXCEPT ![k] = publishNext(running[k], loop)]
        /\ lastOp' = IF loop.thrown THEN Retried ELSE Other
        /\ UNCHANGED <<metadata, m, inbox, log, timeouts, truncates>>

\* publish on key k, one read of the range of a subscription served
publishLoadMessagesOn(k) ==
    LET run == running[k]
        w == Head(run.subs)
    IN  /\ run.op = "publish"
        /\ run.pc = "loads"
        /\ \E absent \in AbsentValues :
              LET load == loadMessagesInRange(m[k], w.offset, run.tail,
                                              run.got, absent)
                  loop == publishLoop(
                            {[id |-> w.id,
                              notification |->
                                publishNotification(run.tail, load.values)]},
                            Tail(run.subs), run.tail)
              IN  IF load.state = "failed"
                  THEN /\ running' = [running EXCEPT ![k] = Idle]
                       /\ lastOp' = Thrown
                       /\ UNCHANGED <<consumer, subscription>>
                  ELSE IF load.state = "loading"
                  THEN /\ running' = [running EXCEPT ![k].got = load.values]
                       /\ lastOp' = Other
                       /\ UNCHANGED <<consumer, subscription>>
                  ELSE /\ consumer' = resolveAwakeable(loop.notes, "publish")
                       /\ subscription' = [subscription EXCEPT ![k] =
                              IF loop.subs = << >>
                              THEN publishedSubscription(subscription[k])
                              ELSE subscription[k]]
                       /\ running' = [running EXCEPT ![k] =
                              publishNext(run, loop)]
                       /\ lastOp' = IF loop.thrown THEN Retried ELSE Other
        /\ UNCHANGED <<metadata, m, inbox, log, timeouts, truncates>>

\* the runtime runs a queued subscribe request on the key it was sent to, up
\* to its second await
subscribeOn(s) ==
    LET k == s.key
        md == metadata[k]
        c == s.id[1]
        rec == consumer[c]
        w == [id |-> s.id, offset |-> s.offset]
        branch == subscribeBranch(s.offset, md)
    IN  /\ s \in inbox
        /\ keyFreeOn(k)
        /\ inbox' = inbox \ {s}
        /\ consumer' =
              IF awaited(s.id) /\ branch = "reject"
              THEN [consumer EXCEPT ![c] = onResponse(rec,
                        rejectionResponse(s.offset, md.head, rec, "subscribe"))]
              ELSE consumer
        /\ running' = [running EXCEPT ![k] =
              IF branch = "reject" THEN Idle
              ELSE [Idle EXCEPT !.op = "subscribe",
                                !.pc = IF branch = "resolve" THEN "loads"
                                       ELSE "subscription",
                                !.tail = md.tail, !.subs = <<w>>]]
        /\ lastOp' = Other
        /\ UNCHANGED <<metadata, m, subscription, log, timeouts, truncates>>

\* subscribe on key k, one read of the range served
subscribeLoadMessagesOn(k) ==
    LET run == running[k]
        s == Head(run.subs)
    IN  /\ run.op = "subscribe"
        /\ run.pc = "loads"
        /\ \E absent \in AbsentValues :
              LET load == loadMessagesInRange(m[k], s.offset, run.tail,
                                              run.got, absent)
              IN  IF load.state = "failed"
                  THEN /\ running' = [running EXCEPT ![k] = Idle]
                       /\ lastOp' = Thrown
                       /\ consumer' = consumer
                  ELSE IF load.state = "loading"
                  THEN /\ running' = [running EXCEPT ![k].got = load.values]
                       /\ lastOp' = Other
                       /\ consumer' = consumer
                  ELSE /\ consumer' = resolveAwakeable(
                            {[id |-> s.id,
                              notification |->
                                subscribeNotification(s.offset, run.tail,
                                                      load.values)]},
                            "subscribe")
                       /\ running' = [running EXCEPT ![k] = Idle]
                       /\ lastOp' = Other
        /\ UNCHANGED <<metadata, m, subscription, inbox, log, timeouts,
                       truncates>>

\* subscribe on key k, its read of the registry of k served
subscribeReadSubscriptionOn(k) ==
    /\ running[k].op = "subscribe"
    /\ running[k].pc = "subscription"
    /\ subscription' = [subscription EXCEPT ![k] =
            Append(subscription[k], Head(running[k].subs))]
    /\ running' = [running EXCEPT ![k] = Idle]
    /\ lastOp' = Other
    /\ UNCHANGED <<metadata, m, inbox, consumer, log, timeouts, truncates>>

\* truncate(count) on key k
truncateOn(k, count) ==
    LET md == metadata[k]
        newHead == truncateHead(md, count)
        subs == subscription[k]
    IN  /\ truncates < MaxTruncates
        /\ keyFreeOn(k)
        /\ metadata' = [metadata EXCEPT ![k] = [md EXCEPT !.head = newHead]]
        /\ m' = [m EXCEPT ![k] = truncatedStore(m[k], newHead)]
        /\ subscription' = [subscription EXCEPT ![k] =
                SelectSeq(subs, LAMBDA s : ~lessThan(s.offset, newHead))]
        /\ consumer' = [c \in Consumers |->
              LET rec == consumer[c]
                  i == firstWith(subs, Len(subs), awakeableId(c, rec))
              IN  IF rec.pc = "parked" /\ i > 0
                     /\ lessThan(subs[i].offset, newHead)
                  THEN onResponse(rec, rejectionResponse(
                          subs[i].offset, newHead, rec, "truncate"))
                  ELSE IF rec.pc = "parked" /\ i > 0
                  THEN [rec EXCEPT !.survived = TRUE]
                  ELSE rec]
        /\ truncates' = truncates + 1
        /\ lastOp' = Other
        /\ UNCHANGED <<inbox, running, log, timeouts>>

InitTopics ==
    /\ metadata = [k \in Topics |-> defaultMetadata]
    /\ m = [k \in Topics |-> [i \in {} |-> Null]]
    /\ subscription = [k \in Topics |-> << >>]
    /\ inbox = {}
    /\ running = [k \in Topics |-> Idle]
    /\ \E o1 \in TopicStartOffsets, o2 \in TopicStartOffsets :
            consumer = [c \in Consumers |->
                    IF c = "c1" THEN newConsumer(o1) ELSE newConsumer(o2)]
    /\ log = [k \in Topics |-> << >>]
    /\ timeouts = 0
    /\ truncates = 0
    /\ lastOp = Other

NextTopics ==
    \/ \E c \in Consumers : request(c)
    \/ \E c \in Consumers : pullReadMetadataOn(c)
    \/ \E c \in Consumers : pullLoadMessagesOn(c)
    \/ \E c \in Consumers : pullTimeout(c)
    \/ \E c \in Consumers : yield(c)
    \/ \E k \in Topics : \E message \in {producedOn(k, log[k])} :
            publishOn(k, message)
    \/ \E k \in Topics : publishReadSubscriptionOn(k)
    \/ \E k \in Topics : publishLoadMessagesOn(k)
    \/ \E s \in inbox : subscribeOn(s)
    \/ \E k \in Topics : subscribeLoadMessagesOn(k)
    \/ \E k \in Topics : subscribeReadSubscriptionOn(k)
    \/ \E k \in Topics : \E count \in Counts : truncateOn(k, count)

TwoTopics == InitTopics /\ [][NextTopics]_vars

\* the state of key k is the same before and after the step
KeyUntouched(k) ==
    /\ metadata'[k] = metadata[k]
    /\ m'[k] = m[k]
    /\ subscription'[k] = subscription[k]
    /\ running'[k] = running[k]
    /\ log'[k] = log[k]

\* the step starts or continues an exclusive invocation on key k: it changes
\* something of the state of k, or takes a subscribe request for k from the
\* queue
ExclusiveStepOn(k) ==
    \/ ~KeyUntouched(k)
    \/ \E s \in inbox : s.key = k /\ s \notin inbox'

\* C16: a step of publish, subscribe or truncate on one key leaves head,
\* tail, messages, waiters and the invocation under way of every other key as
\* they are and completes no pull of a consumer of another key; a step of a
\* pull changes the state of no key; every subscribe request is addressed to
\* the key of the pull that sent it, and every registered waiter belongs to a
\* pull on the key it is registered on.
C16_TopicsIndependent ==
    [][/\ \A k \in Topics :
             ExclusiveStepOn(k)
             => \A k2 \in Topics \ {k} :
                   /\ KeyUntouched(k2)
                   /\ \A c \in Consumers :
                         topicOf[c] = k2 => consumer'[c] = consumer[c]
       /\ \A c \in Consumers :
             (consumer[c].pc \in {"requested", "loading"}
                 /\ consumer'[c] # consumer[c])
             => \A k \in Topics : KeyUntouched(k)
       /\ \A s \in inbox' : s.key = topicOf[s.id[1]]
       /\ \A k \in Topics : \A i \in 1 .. Len(subscription'[k]) :
             topicOf[subscription'[k][i].id[1]] = k]_vars

\* both keys hold messages of their own, one was truncated and the other was
\* not, and the consumer of each key was handed a message by a publish on it
C16_Witness ==
    /\ metadata["A"].head # metadata["B"].head
    /\ metadata["A"].tail > 0
    /\ metadata["B"].tail > 0
    /\ \A c \in Consumers :
          /\ consumer[c].res.via = "publish"
          /\ consumer[c].res.messages = <<log[topicOf[c]][1]>>


(* ------------------------------- C22 ----------------------------------- *)

\* C22 as stated: publish resolves every waiter whose offset is below the
\* new tail, so that no such waiter is left with a publish that has stopped
\* short of the end of its loop; a pull that a publish completes, its
\* waiter's offset below the new tail, returns {nextOffset: new tail,
\* messages: the entries at its offset .. new tail - 1, the appended message
\* included}, loaded after the append; and when the publish ends every
\* waiter that was registered is removed: its token is afterwards neither
\* registered nor queued.
C22_PublishResolvesWaiters ==
    /\ [](running.pc = "retrying"
            => \A i \in 1 .. Len(running.subs) :
                  ~lessThan(running.subs[i].offset, running.tail))
    /\ [][/\ PublishNotifyStep
             => \A c \in Consumers :
                   (/\ consumer[c].pc = "parked"
                    /\ consumer'[c].pc # "parked"
                    /\ lessThan(consumer[c].waitOff, running.tail))
                   => /\ awakeableId(c, consumer[c]) \in registered
                      /\ consumer'[c].res.kind = "ok"
                      /\ consumer'[c].res.via = "publish"
                      /\ consumer'[c].res.nextOffset = running.tail
                      /\ consumer'[c].res.messages =
                             SubSeq(log, consumer[c].waitOff + 1, running.tail)
                      /\ consumer'[c].pc = "yield"
          /\ PublishDone
             => \A t \in registered :
                   t \notin {subscription'[j].id :
                                j \in 1 .. Len(subscription')}
                             \cup {q.id : q \in inbox'}]_vars

\* what of C22 the publish loop does keep: every pull that a step of publish
\* completes, its waiter's offset below the new tail, was registered and
\* gets the entries from its offset to the new tail, the appended message
\* last, with nextOffset = new tail
C22_NotificationContent ==
    [][PublishNotifyStep
          => \A c \in Consumers :
                (/\ consumer[c].pc = "parked"
                 /\ consumer'[c].pc # "parked"
                 /\ lessThan(consumer[c].waitOff, running.tail))
                => /\ awakeableId(c, consumer[c]) \in registered
                   /\ consumer'[c].res.kind = "ok"
                   /\ consumer'[c].res.nextOffset = metadata.tail
                   /\ consumer'[c].res.messages =
                          SubSeq(log, consumer[c].waitOff + 1, running.tail)
                   /\ consumer'[c].res.messages[
                          Len(consumer'[c].res.messages)] = log[Len(log)]]_vars

(* ------------------------------- C23 ----------------------------------- *)

\* the step in which the queued subscribe request s is processed
SubscribeStep(s) == s \in inbox /\ inbox' = inbox \ {s}

\* C23: a subscribe with head <= offset < tail loads the entries offset ..
\* tail-1 and, before it returns, resolves its token with {nextOffset: tail,
\* messages: those entries}; no step of it registers anything.  A subscribe
\* with offset >= tail reads the registry and appends {id, offset}, whose
\* token was not registered before, at its end, notifying nobody.
C23_SubscribeResolvesOrRegisters ==
    [][/\ \A s \in inbox :
             /\ (/\ SubscribeStep(s)
                 /\ metadata.head <= s.offset
                 /\ s.offset < metadata.tail)
                => /\ running'.op = "subscribe"
                   /\ running'.pc = "loads"
                   /\ running'.subs = <<s>>
                   /\ UNCHANGED <<subscription, metadata, m, consumer>>
             /\ (SubscribeStep(s) /\ s.offset >= metadata.tail)
                => /\ running'.op = "subscribe"
                   /\ running'.pc = "subscription"
                   /\ running'.subs = <<s>>
                   /\ UNCHANGED <<subscription, metadata, m, consumer>>
       /\ (running.op = "subscribe" /\ running.pc = "loads"
                                    /\ running' # running)
          => /\ UNCHANGED <<subscription, metadata, m, inbox>>
             /\ running'.op = "none" \/ consumer' = consumer
             /\ (running'.op = "none" /\ awaited(running.subs[1].id))
                => LET c == running.subs[1].id[1]
                   IN  /\ consumer'[c].res.kind = "ok"
                       /\ consumer'[c].res.via = "subscribe"
                       /\ consumer'[c].res.nextOffset = metadata.tail
                       /\ consumer'[c].res.messages =
                              entries(running.subs[1].offset, metadata.tail)
       /\ (running.op = "subscribe" /\ running.pc = "subscription"
                                    /\ running' # running)
          => /\ running.subs[1].id \notin registered
             /\ ~lessThan(running.subs[1].offset, metadata.tail)
             /\ subscription' = Append(subscription, running.subs[1])
             /\ running'.op = "none"
             /\ UNCHANGED <<metadata, m, consumer, inbox>>]_vars

\* two publishes were ordered between a pull's read and its subscribe, which
\* handed both messages over, while another waiter stayed registered
C23_Witness ==
    \E c \in Consumers :
        /\ consumer[c].res.kind = "ok"
        /\ consumer[c].res.via = "subscribe"
        /\ consumer[c].res.messages = <<"a", "b">>
        /\ subscription # << >>

(* ------------------------------- C24 ----------------------------------- *)

\* C24: a subscribe with offset < head rejects its token with OffsetBelowHead
\* (that offset, the head), registers nothing and changes nothing else of the
\* topic; the pull awaiting the token fails, terminally, as a pull made
\* directly below the head does.
C24_SubscribeBelowHeadRejects ==
    [][\A s \in inbox :
          (SubscribeStep(s) /\ lessThan(s.offset, metadata.head))
          => /\ UNCHANGED <<subscription, metadata, m, running>>
             /\ \A c \in Consumers \ {s.id[1]} : consumer'[c] = consumer[c]
             /\ awaited(s.id)
                => /\ consumer'[s.id[1]].res.kind =
                          pullResponse(s.offset, metadata, NoLoad).kind
                   /\ consumer'[s.id[1]].res.kind = "belowHead"
                   /\ consumer'[s.id[1]].res.offset = s.offset
                   /\ consumer'[s.id[1]].res.head = metadata.head
                   /\ consumer'[s.id[1]].pc = "failed"]_vars

\* a pull suspended at the tail, a publish and a truncate were ordered before
\* its subscribe, and the subscribe rejected it
C24_Witness ==
    \E c \in Consumers :
        /\ consumer[c].pc = "failed"
        /\ consumer[c].res.kind = "belowHead"
        /\ consumer[c].res.via = "subscribe"
        /\ consumer[c].res.offset < metadata.head

(* ------------------------------- C25 ----------------------------------- *)

\* C25: in every reachable state of the topic 0 <= head <= tail.
C25_HeadAtMostTail ==
    /\ 0 <= metadata.head
    /\ metadata.head <= metadata.tail

\* everything published was truncated, by one truncate asking for more than
\* one message, while a waiter was registered
C25_Witness ==
    /\ metadata.head = 2
    /\ metadata.tail = 2
    /\ subscription # << >>

(* ------------------------------- C26 ----------------------------------- *)

\* C26: the tail is the number of publishes that have appended their
\* message, and the entry at every visible offset i is the message of the
\* (i+1)-th publish; the tail changes only in a publish, by exactly one,
\* the message going to the key of the old tail, and every publish changes
\* it.
C26_TailCountsPublishes ==
    /\ [](/\ metadata.tail = Len(log)
          /\ \A i \in rangeKeys(metadata.head, metadata.tail) :
                i \in DOMAIN m /\ m[i] = log[i + 1])
    /\ [][/\ metadata'.tail # metadata.tail
             => /\ metadata'.tail = metadata.tail + 1
                /\ log' = Append(log, m'[metadata.tail])
          /\ log' # log => metadata'.tail = metadata.tail + 1]_vars

\* two publishes were completed, with a truncate and pulls in between
C26_Witness ==
    /\ metadata.tail = 2
    /\ metadata.head = 1
    /\ m[1] = "b"
    /\ \E c \in Consumers : consumer[c].yielded = <<"a">>

(* ------------------------------- C27 ----------------------------------- *)

\* a step of one of the handlers that notify waiters
NotifyingStep ==
    \/ running' # running
    \/ TruncateStep
    \/ \E s \in inbox : SubscribeStep(s)

Quiescent ==
    /\ inbox = {}
    /\ running.op = "none"
    /\ \A c \in Consumers : consumer[c].pc \in {"done", "failed"}

\* C28: the waiter of a pull that timed out is removed without the help of
\* a publish or truncate: once no subscribe request is queued and every loop
\* has ended, so that only a publish could still touch the registry, no
\* waiter of a pull that ended with the timeout is registered.
C28_TimedOutWaiterRemoved ==
    Quiescent =>
        \A c \in Consumers :
            consumer[c].res.kind = "timeout"
                => awakeableId(c, consumer[c]) \notin registered

(* ------------------------------- C29 ----------------------------------- *)

\* C29 as stated: publish has no failure outcome.  In every reachable state
\* no step of publish or subscribe has thrown; with the key free and room
\* for one more message a publish can start, and a publish or subscribe
\* under way can take its next step; every range such an invocation has
\* still to load,
\* from a waiter's offset to the tail it holds, consists of stored entries
\* only, and so does the range of every queued subscribe request that would
\* resolve its waiter from storage.
C29_PublishNeverFails ==
    /\ lastOp.name \notin {"thrown", "retried"}
    /\ (keyFree /\ metadata.tail < MaxTail)
          => ENABLED publish(produced(log))
    /\ running.op = "publish"
          => ENABLED (publishReadSubscription \/ publishLoadMessages)
    /\ running.op = "subscribe"
          => ENABLED (subscribeReadSubscription \/ subscribeLoadMessages)
    /\ running.pc = "loads"
          => \A k \in 1 .. Len(running.subs) :
                \A i \in rangeKeys(running.subs[k].offset, running.tail) :
                    i \in DOMAIN m
    /\ \A s \in inbox :
          subscribeBranch(s.offset, metadata) = "resolve"
              => \A i \in rangeKeys(s.offset, metadata.tail) : i \in DOMAIN m

\* what of C29 does hold: no step of publish or subscribe throws the
\* terminal error of loadMessagesInRange, every range an invocation under
\* way has still to load consists of stored entries, and so does the range
\* of every queued subscribe request that would resolve its waiter from
\* storage
C29_LoadedRangesStored ==
    /\ lastOp.name # "thrown"
    /\ running.pc = "loads"
          => \A k \in 1 .. Len(running.subs) :
                \A i \in rangeKeys(running.subs[k].offset, running.tail) :
                    i \in DOMAIN m
    /\ \A s \in inbox :
          subscribeBranch(s.offset, metadata) = "resolve"
              => \A i \in rangeKeys(s.offset, metadata.tail) : i \in DOMAIN m

(* ------------------------------- C30 ----------------------------------- *)

\* C30: pull is read-only. A pull call changes neither head nor tail, nor a
\* stored message, nor the registry of waiters. It sends a subscribe request
\* only when the offset it asks for is unset or not below the tail it reads:
\* then exactly one, carrying its own token and that offset, and it suspends;
\* with an offset at or beyond the tail it always does. On the fast path,
\* every read of the load included, and on the below-head failure path it
\* sends none. Its timeout changes nothing of the topic either.
C30_PullIsReadOnly ==
    [][\A c \in Consumers :
          /\ ReadStep(c)
             => /\ UNCHANGED <<metadata, m, subscription, log>>
                /\ IF consumer'[c].pc = "parked"
                   THEN /\ \/ consumer[c].offset = Unset
                           \/ consumer[c].offset >= metadata.tail
                        /\ inbox' = inbox \cup
                              {[id |-> awakeableId(c, consumer'[c]),
                                offset |-> consumer[c].offset]}
                        /\ Cardinality(inbox') = Cardinality(inbox) + 1
                   ELSE inbox' = inbox
                /\ (/\ validRequest(consumer[c].offset)
                    /\ consumer[c].offset >= metadata.tail)
                   => consumer'[c].pc = "parked"
          /\ KeyReadStep(c)
             => UNCHANGED <<metadata, m, subscription, log, inbox>>
          /\ TimeoutStep(c)
             => UNCHANGED <<metadata, m, subscription, log, inbox>>]_vars

\* one consumer has been answered on the fast path and has no request
\* queued or registered, another has failed below the head without one, and
\* the topic holds what was published
C30_Witness ==
    /\ metadata.tail = Len(log)
    /\ metadata.head > 0
    /\ \E c, d \in Consumers :
          /\ consumer[c].res.via = "fast"
          /\ consumer[c].res.messages # << >>
          /\ \A t \in registered \cup queued : t[1] # c
          /\ consumer[d].res.kind = "belowHead"
          /\ consumer[d].res.via = "pull"


(* ------------------------------- C21 ----------------------------------- *)

\* sse(): new ReadableStream runs start() at once: it enqueues the keep-alive
\* marker and asks the loop for its first message, upon which the loop
\* checks the signal and sends its first pull call (or returns, the signal
\* being set already)
sse(c) ==
    /\ consumer[c].stream.state = "none"
    /\ consumer[c].pc = "start"
    /\ consumer' = [consumer EXCEPT ![c] =
            streamed([consumer[c] EXCEPT
                !.stream = [state |-> "open",
                            enqueued |-> <<encode("event: ping\n")>>],
                !.pc = IF consumer[c].aborted THEN "done" ELSE "requested"])]
    /\ lastOp' = Other
    /\ UNCHANGED <<metadata, m, subscription, running, inbox, log, timeouts,
                   truncates>>

\* the loop inside start(), after its sleep, sends its next pull call
sseRequest(c) ==
    /\ consumer[c].stream.state = "open"
    /\ request(c)

\* the loop inside start(), after its sleep, finds the signal set
sseFinish(c) ==
    /\ consumer[c].stream.state = "open"
    /\ finish(c)

\* The scenario of C21: every consumer loop runs inside a stream, whose owner
\* may set the signal at any time.  Each loop suspends at most MaxSuspensions
\* times.
NextStream ==
    \/ \E c \in Consumers : sse(c)
    \/ \E c \in Consumers : consumer[c].id < MaxSuspensions /\ sseRequest(c)
    \/ \E c \in Consumers : pullReadMetadata(c)
    \/ \E c \in Consumers : pullLoadMessages(c)
    \/ \E c \in Consumers : pullTimeout(c)
    \/ \E c \in Consumers : abort(c)
    \/ \E c \in Consumers : sseFinish(c)
    \/ \E message \in {produced(log)} : publish(message)
    \/ publishReadSubscription
    \/ publishLoadMessages
    \/ \E s \in inbox : subscribe(s)
    \/ subscribeLoadMessages
    \/ subscribeReadSubscription
    \/ \E count \in Counts : truncate(count)

EventStream == Init /\ [][NextStream]_vars

\* the bytes a client of the stream reads for each payload, as in the README,
\* and for null
Framed ==
    [a |-> [utf8 |-> "data: \"a\"\n\n"], b |-> [utf8 |-> "data: \"b\"\n\n"],
     c |-> [utf8 |-> "data: \"c\"\n\n"], d |-> [utf8 |-> "data: \"d\"\n\n"],
     null |-> [utf8 |-> "data: null\n\n"]]

\* C21: before the stream is started nothing is enqueued and no pull has
\* been made; from then on the first chunk is the keep-alive marker and the
\* chunks after it are the frames of the messages yielded by the loop, one
\* per message, in the loop's order; the stream is closed exactly when the
\* loop has ended and errored exactly when it has failed; and nothing of the
\* stream changes after close or error.
C21_EventStream ==
    /\ [](\A c \in Consumers :
            LET rec == consumer[c]
                st == rec.stream
            IN  /\ st.state = "none"
                   => /\ st.enqueued = << >>
                      /\ rec.pc = "start"
                      /\ rec.id = 0
                      /\ rec.res = NoResponse
                      /\ rec.yielded = << >>
                /\ st.state # "none"
                   => /\ Len(st.enqueued) = 1 + Len(rec.yielded)
                      /\ st.enqueued[1] = [utf8 |-> "event: ping\n"]
                      /\ \A i \in 1 .. Len(rec.yielded) :
                            st.enqueued[i + 1] = Framed[rec.yielded[i]]
                      /\ st.state = "closed" <=> rec.pc = "done"
                      /\ st.state = "errored" <=> rec.pc = "failed")
    /\ [][\A c \in Consumers :
            consumer[c].stream.state \in {"closed", "errored"}
                => consumer'[c].stream = consumer[c].stream]_vars

\* one stream was closed after the marker and two frames, the other went
\* into the error state after the marker and one frame
C21_Witness ==
    \E c, d \in Consumers :
        /\ consumer[c].stream.state = "closed"
        /\ Len(consumer[c].stream.enqueued) = 3
        /\ consumer[d].stream.state = "errored"
        /\ Len(consumer[d].stream.enqueued) = 2

\* the stream of a loop whose signal was set right after sse() returned: the
\* pull call under way is aborted, the loop throws and the stream is in the
\* error state with the keep-alive marker as its only chunk
C21_AbortedAtOnce ==
    \E c \in Consumers :
        /\ consumer[c].stream.state = "errored"
        /\ consumer[c].res.kind = "aborted"
        /\ consumer[c].id = 0
        /\ consumer[c].stream.enqueued = <<[utf8 |-> "event: ping\n"]>>


(* ------------------------------- C31 ----------------------------------- *)

\* C31: while no publish is under way every waiter registered for an offset
\* has that offset at or beyond the tail, hence at or beyond the head and at
\* or beyond the new head of any truncate that could run next; no pull has
\* been rejected by a truncate.
C31_WaitersAtOrBeyondTail ==
    /\ \A i \in 1 .. Len(subscription) :
          (running.op # "publish" /\ validRequest(subscription[i].offset)) =>
          /\ subscription[i].offset >= metadata.tail
          /\ subscription[i].offset >= metadata.head
          /\ \A count \in Counts :
                subscription[i].offset >= truncateHead(metadata, count)
    /\ \A c \in Consumers : consumer[c].res.via # "truncate"

\* a truncate up to the tail has just run with a waiter registered, and the
\* waiter is still registered
C31_Witness ==
    /\ lastOp.name = "truncate"
    /\ metadata.head = metadata.tail
    /\ metadata.tail > 0
    /\ \E i \in 1 .. Len(subscription) :
          validRequest(subscription[i].offset)

(* ------------------------------- C32 ----------------------------------- *)

\* C32 as stated: every successful response of pull, from the fast path, from a
\* publish notification or from subscribe's immediate resolution, moves
\* past the requested offset and carries exactly the messages in between:
\* nextOffset > offset and nextOffset - offset messages, never an empty
\* batch.
C32_SuccessfulPullAdvances ==
    \A c \in Consumers :
        (consumer[c].res.kind = "ok" /\ validRequest(consumer[c].res.offset))
            => /\ consumer[c].res.nextOffset > consumer[c].res.offset
               /\ Len(consumer[c].res.messages) =
                     consumer[c].res.nextOffset - consumer[c].res.offset

(* ------------------------------- C33 ----------------------------------- *)

\* the response a consumer holds carries, at each offset it covers, the
\* message published at that offset
carriesPublished(resp) ==
    \A k \in 1 .. Len(resp.messages) :
        /\ resp.offset + k <= Len(log)
        /\ resp.messages[k] = log[resp.offset + k]

\* C33 as stated: every successful response, whether from the fast path, a
\* publish notification or subscribe's immediate resolution, carries at each
\* offset it covers the message that was published at that offset, so that
\* two responses that cover the same offset carry the same payload there.
C33_MessagesImmutable ==
    \A c \in Consumers :
        /\ (consumer[c].res.kind = "ok" /\ validRequest(consumer[c].res.offset))
           => carriesPublished(consumer[c].res)
        /\ \A c2 \in Consumers, k \in 1 .. MaxTail, k2 \in 1 .. MaxTail :
              (/\ consumer[c].res.kind = "ok"
               /\ consumer[c2].res.kind = "ok"
               /\ validRequest(consumer[c].res.offset)
               /\ validRequest(consumer[c2].res.offset)
               /\ k <= Len(consumer[c].res.messages)
               /\ k2 <= Len(consumer[c2].res.messages)
               /\ consumer[c].res.offset + k = consumer[c2].res.offset + k2)
              => consumer[c].res.messages[k] = consumer[c2].res.messages[k2]

\* the part of C33 that holds: no step changes the payload stored under a
\* key (it may only purge the key) or a published message, and a response
\* whose range was at or above the head when it was loaded carries the
\* published messages
C33_StoredPayloadsKept ==
    [][/\ \A i \in DOMAIN m : i \in DOMAIN m' => m'[i] = m[i]
       /\ \A i \in 1 .. Len(log) : Len(log') >= i /\ log'[i] = log[i]
       /\ \A c \in Consumers :
             (LoadStep(c) /\ metadata.head <= consumer[c].res.offset)
             => carriesPublished(consumer'[c].res)]_vars

(* ------------------------------- C34 ----------------------------------- *)

\* the tokens handed out so far: consumer c's k-th suspended pull created
\* the token <<c, k>>
issued ==
    {t \in Consumers \X (1 .. (MaxTail + MaxTimeouts + 2)) :
        t[2] <= consumer[t[1]].id}

\* C34: a token is registered at most once and queued in at most one
\* subscribe request, never both, the token a running subscribe has in hand
\* is neither, and only tokens that a pull created are held; when a publish
\* ends, every token that was registered is neither registered nor queued;
\* the token of a subscribe that rejects or will resolve it is, from the
\* start of that subscribe, neither registered nor queued, and so is every
\* token a truncate rejects; and a token that is neither registered nor
\* queued nor in the hand of a running subscribe never becomes so again.  A
\* token can only be notified while it is one of these, hence no token is
\* notified twice.
C34_TokenNotifiedOnce ==
    /\ [](/\ \A i, j \in 1 .. Len(subscription) :
                subscription[i].id = subscription[j].id => i = j
          /\ \A s, t \in inbox : s.id = t.id => s = t
          /\ registered \cap queued = {}
          /\ running.op = "subscribe"
                => inHand \cap (registered \cup queued) = {}
          /\ running.op = "publish" => inHand \subseteq registered
          /\ registered \cup queued \cup inHand \subseteq issued)
    /\ [][/\ PublishDone
             => \A t \in registered :
                   t \notin {subscription'[j].id :
                                    j \in 1 .. Len(subscription')}
                                \cup {q.id : q \in inbox'}
          /\ \A s \in inbox :
                (SubscribeStep(s)
                    /\ (\/ lessThan(s.offset, metadata.head)
                        \/ lessThan(s.offset, metadata.tail)))
                => s.id \notin {subscription'[j].id :
                                    j \in 1 .. Len(subscription')}
                                \cup {q.id : q \in inbox'}
          /\ (running.op = "subscribe" /\ running.pc = "loads")
                => subscription' = subscription
          /\ TruncateStep
             => \A i \in 1 .. Len(subscription) :
                    lessThan(subscription[i].offset, metadata'.head)
                        => subscription[i].id \notin
                              {subscription'[j].id :
                                    j \in 1 .. Len(subscription')}
                                \cup {q.id : q \in inbox'}
          /\ \A t \in issued :
                t \notin registered \cup queued \cup inHand
                    => t \notin {subscription'[j].id :
                                    j \in 1 .. Len(subscription')}
                                \cup {q.id : q \in inbox'}
                                \cup {running'.subs[j].id :
                                    j \in 1 .. Len(running'.subs)}]_vars

\* a consumer's first token was resolved by a publish and is gone, and the
\* token of its second pull is registered
C34_Witness ==
    \E c \in Consumers :
        /\ consumer[c].id = 2
        /\ consumer[c].yielded # << >>
        /\ <<c, 1>> \notin registered \cup queued
        /\ <<c, 2>> \in registered

=============================================================================
